---- MODULE Spec2Model ----
(***************************************************************************)
(* Page replacement simulator (src/algorithms.py, src/simulator.py).       *)
(* One reference string and one frame count are chosen; the simulator      *)
(* then runs FIFO, Optimal, ReferenceBits and ARC, in that order, each on  *)
(* a fresh instance, one access per step, and records the three counters.  *)
(***************************************************************************)
EXTENDS Integers, Sequences, FiniteSets, TLC

(* ------------------------------ bounds -------------------------------- *)
NumPages == 3
MaxFrames == 2
MaxLen == 5
MaxTail == 3
MaxDeficit == 1
GhostPages == 6
GhostTail == 2

(* -------------------------- program constants ------------------------- *)
AgingPeriod == 100
MSB == 128

VARIABLES
    num_frames,        \* simulator.py: the frame count of this experiment
    ref_string,        \* the reference string: sequence of (page, is_write)
    k,                 \* position in the simulator's loop over the algorithms
    pc,                \* "new": about to construct, "run": inside run(),
                       \* "raised": run() ended with an exception
    i,                 \* accesses of ref_string processed by the current run
    self,              \* the policy instance: frames, faults, interrupts, writes, p
    memory,            \* FIFO / Optimal / ReferenceBits: resident pages
    queue,             \* FIFO: admission queue
    dirty,             \* dict page -> bool
    future_positions,  \* Optimal: dict page -> list of future indices
    bits,              \* ReferenceBits: dict page -> reference byte
    T1, T2, B1, B2,    \* ARC: resident lists and ghost lists
    results,           \* simulator.py: algo name -> counters returned by run
    admitted,          \* history: page -> index of the access that admitted it
    faulted,           \* history: the pages of the faults of this run, in order
    replace_calls      \* history: the calls of ARC's replace() in the last access

vars == <<num_frames, ref_string, k, pc, i, self, memory, queue, dirty,
          future_positions, bits, T1, T2, B1, B2, results, admitted,
          faulted, replace_calls>>

(* ------------------------------ inputs -------------------------------- *)
Pages == 1..NumPages
Access == [page : Pages, is_write : BOOLEAN]
ShortRefs == UNION {[1..n -> Access] : n \in 0..MaxLen}
\* references long enough for the aging of ReferenceBits to happen: pages 1
\* and 2 in turn for AgingPeriod accesses, then an arbitrary tail
WarmUp(w) ==
    [j \in 1..AgingPeriod |-> [page |-> 2 - (j % 2), is_write |-> w]]
LongRefs ==
    {WarmUp(w) \o t :
        w \in BOOLEAN, t \in UNION {[1..n -> Access] : n \in 1..MaxTail}}
AlgoOrder == <<"FIFO", "Optimal", "ReferenceBits", "ARC">>
algo == IF k <= Len(AlgoOrder) THEN AlgoOrder[k] ELSE "none"

(* ------------------------- list / dict helpers ------------------------ *)
EmptyMap == [x \in {} |-> FALSE]
Elems(seq) == {seq[j] : j \in 1..Len(seq)}
Contains(seq, x) == \E j \in 1..Len(seq) : seq[j] = x
RemoveFirst(seq, x) ==
    IF ~Contains(seq, x) THEN seq
    ELSE LET j == CHOOSE n \in 1..Len(seq) :
                      seq[n] = x /\ \A m \in 1..(n - 1) : seq[m] # x
         IN  SubSeq(seq, 1, j - 1) \o SubSeq(seq, j + 1, Len(seq))
SetKey(d, key, v) ==
    [x \in DOMAIN d \cup {key} |-> IF x = key THEN v ELSE d[x]]
DelKey_keep(d, key) == d
DelKey(d, key) == [x \in DOMAIN d \ {key} |-> d[x]]
IsDirty(d, page) == page \in DOMAIN d /\ d[page]

(* ------------------------------ counters ------------------------------ *)
\* PageReplacementAlgorithm.__init__ followed by reset(); ARC.run sets p = 0
NewInstance(frames) ==
    [frames |-> frames, faults |-> 0, interrupts |-> 0, writes |-> 0, p |-> 0]

\* "self.faults += 1; self.interrupts += 1"
PageFault_nofault(obj) == [obj EXCEPT !.interrupts = @ + 1]
PageFault(obj) == [obj EXCEPT !.faults = @ + 1, !.interrupts = @ + 1]

\* "if victim in dirty and dirty[victim]: self.writes += 1; self.interrupts += 1"
WriteBack_nointr(obj, d, victim) ==
    IF IsDirty(d, victim) THEN [obj EXCEPT !.writes = @ + 1] ELSE obj
WriteBack(obj, d, victim) ==
    IF IsDirty(d, victim)
    THEN [obj EXCEPT !.writes = @ + 1, !.interrupts = @ + 1]
    ELSE obj

\* "if len(memory) < self.frames"
HasRoom_offbyone(mem, frames) == Len(mem) <= frames
HasRoom(mem, frames) == Len(mem) < frames

\* hit path: "if is_write: dirty[page] = True"
HitDirty_overwrite(d, page, is_write) == SetKey(d, page, is_write)
HitDirty(d, page, is_write) == IF is_write THEN SetKey(d, page, TRUE) ELSE d

(* -------------------------------- FIFO -------------------------------- *)
Running(name) == pc = "run" /\ algo = name /\ i < Len(ref_string)

\* "victim = queue.pop(0)"
QueuePop_last(q) == [victim |-> q[Len(q)], rest |-> SubSeq(q, 1, Len(q) - 1)]
QueuePop(q) == [victim |-> Head(q), rest |-> Tail(q)]

\* the hit branch leaves the queue as it is
QueueOnHit_refresh(q, page) == Append(RemoveFirst(q, page), page)
QueueOnHit(q, page) == q

FIFOStep ==
    /\ Running("FIFO")
    /\ LET page == ref_string[i + 1].page
           is_write == ref_string[i + 1].is_write
       IN  IF ~Contains(memory, page)
           THEN IF HasRoom(memory, self.frames)
                THEN /\ memory' = Append(memory, page)
                     /\ queue' = Append(queue, page)
                     /\ self' = PageFault(self)
                     /\ dirty' = SetKey(dirty, page, is_write)
                     /\ admitted' = SetKey(admitted, page, i)
                     /\ faulted' = Append(faulted, page)
                     /\ i' = i + 1 /\ pc' = pc
                ELSE IF queue = <<>>
                THEN \* pop from an empty list: IndexError leaves run()
                     /\ self' = PageFault(self)
                     /\ pc' = "raised"
                     /\ UNCHANGED <<i, memory, queue, dirty, admitted, faulted>>
                ELSE LET popped == QueuePop(queue)
                         victim == popped.victim
                     IN  /\ queue' = Append(popped.rest, page)
                         /\ self' = WriteBack(PageFault(self), dirty, victim)
                         /\ memory' = Append(RemoveFirst(memory, victim), page)
                         /\ dirty' = SetKey(DelKey(dirty, victim), page, is_write)
                         /\ admitted' = SetKey(admitted, page, i)
                         /\ faulted' = Append(faulted, page)
                         /\ i' = i + 1 /\ pc' = pc
           ELSE /\ dirty' = HitDirty(dirty, page, is_write)
                /\ queue' = QueueOnHit(queue, page)
                /\ i' = i + 1 /\ pc' = pc
                /\ UNCHANGED <<memory, self, admitted, faulted>>
    /\ UNCHANGED <<num_frames, ref_string, k, future_positions, bits,
                   T1, T2, B1, B2, results, replace_calls>>

(* ------------------------------- Optimal ------------------------------ *)
\* the precomputation loop: page -> indices (0-based) where it occurs
Occurrences(ref, page) ==
    LET F[n \in 0..Len(ref)] ==
            IF n = 0 THEN <<>>
            ELSE IF ref[n].page = page THEN Append(F[n - 1], n - 1)
                 ELSE F[n - 1]
    IN  F[Len(ref)]
BuildFuturePositions(ref) ==
    [page \in {ref[n].page : n \in 1..Len(ref)} |-> Occurrences(ref, page)]

\* the scan of _find_victim, from position n with the running max_dist/victim
\* a scan that passes over the pages that are never used again
RECURSIVE ScanSkipUnused(_, _, _, _, _)
ScanSkipUnused(mem, fp, n, max_dist, victim) ==
    IF n > Len(mem) THEN victim
    ELSE IF fp[mem[n]] # <<>> /\ Head(fp[mem[n]]) > max_dist
         THEN ScanSkipUnused(mem, fp, n + 1, Head(fp[mem[n]]), mem[n])
         ELSE ScanSkipUnused(mem, fp, n + 1, max_dist, victim)
RECURSIVE ScanVictim(_, _, _, _, _)
ScanVictim(mem, fp, n, max_dist, victim) ==
    IF n > Len(mem) THEN victim
    ELSE IF fp[mem[n]] = <<>> THEN mem[n]
    ELSE IF Head(fp[mem[n]]) > max_dist
         THEN ScanVictim(mem, fp, n + 1, Head(fp[mem[n]]), mem[n])
         ELSE ScanVictim(mem, fp, n + 1, max_dist, victim)
find_victim_skipunused(mem, fp) == ScanSkipUnused(mem, fp, 1, -1, mem[1])
\* a scan that gives a page never used again the distance "infinity" and
\* keeps the last page with the largest distance
RECURSIVE ScanLastUnused(_, _, _, _, _)
ScanLastUnused(mem, fp, n, max_dist, victim) ==
    IF n > Len(mem) THEN victim
    ELSE LET next_use == IF fp[mem[n]] = <<>> THEN 1000000 ELSE Head(fp[mem[n]])
         IN  IF next_use >= max_dist
             THEN ScanLastUnused(mem, fp, n + 1, next_use, mem[n])
             ELSE ScanLastUnused(mem, fp, n + 1, max_dist, victim)
find_victim_lastunused(mem, fp) == ScanLastUnused(mem, fp, 1, -1, mem[1])
find_victim(mem, fp) == ScanVictim(mem, fp, 1, -1, mem[1])

OptimalStep ==
    /\ Running("Optimal")
    /\ LET page == ref_string[i + 1].page
           is_write == ref_string[i + 1].is_write
           fp == [future_positions EXCEPT ![page] = Tail(@)]
       IN  /\ future_positions' = fp
           /\ IF ~Contains(memory, page)
              THEN IF HasRoom(memory, self.frames)
                   THEN /\ memory' = Append(memory, page)
                        /\ self' = PageFault(self)
                        /\ dirty' = SetKey(dirty, page, is_write)
                        /\ admitted' = SetKey(admitted, page, i)
                        /\ faulted' = Append(faulted, page)
                        /\ i' = i + 1 /\ pc' = pc
                   ELSE IF memory = <<>>
                   THEN \* memory[0] of an empty list: IndexError leaves run()
                        /\ self' = PageFault(self)
                        /\ pc' = "raised"
                        /\ UNCHANGED <<i, memory, dirty, admitted, faulted>>
                   ELSE LET victim == find_victim(memory, fp)
                        IN  /\ self' = WriteBack(PageFault(self), dirty, victim)
                            /\ memory' = Append(RemoveFirst(memory, victim), page)
                            /\ dirty' = SetKey(DelKey(dirty, victim), page, is_write)
                            /\ admitted' = SetKey(admitted, page, i)
                            /\ faulted' = Append(faulted, page)
                            /\ i' = i + 1 /\ pc' = pc
              ELSE /\ dirty' = HitDirty(dirty, page, is_write)
                   /\ i' = i + 1 /\ pc' = pc
                   /\ UNCHANGED <<memory, self, admitted, faulted>>
    /\ UNCHANGED <<num_frames, ref_string, k, queue, bits,
                   T1, T2, B1, B2, results, replace_calls>>

(* ---------------------------- ReferenceBits --------------------------- *)
\* "bits[p] >> 1" and "bits[page] | 128" on a reference byte
ShiftRight(b) == b \div 2
OrMSB_reset(b) == MSB
OrMSB(b) == IF (b \div MSB) % 2 = 1 THEN b ELSE b + MSB

\* the periodic aging at the top of the loop body
Aged(idx, mem, bts) ==
    IF idx > 0 /\ idx % AgingPeriod = 0
    THEN [x \in DOMAIN bts |-> IF Contains(mem, x) THEN ShiftRight(bts[x]) ELSE bts[x]]
    ELSE bts

\* "min(memory, key=lambda p: bits[p])": the first page with the least byte
MinByBits_lastmin(mem, bts) ==
    mem[CHOOSE n \in 1..Len(mem) :
            /\ \A m \in 1..Len(mem) : bts[mem[n]] <= bts[mem[m]]
            /\ \A m \in (n + 1)..Len(mem) : bts[mem[m]] > bts[mem[n]]]
MinByBits(mem, bts) ==
    mem[CHOOSE n \in 1..Len(mem) :
            /\ \A m \in 1..Len(mem) : bts[mem[n]] <= bts[mem[m]]
            /\ \A m \in 1..(n - 1) : bts[mem[m]] > bts[mem[n]]]

ReferenceBitsStep ==
    /\ Running("ReferenceBits")
    /\ LET page == ref_string[i + 1].page
           is_write == ref_string[i + 1].is_write
           aged == Aged(i, memory, bits)
       IN  IF ~Contains(memory, page)
           THEN IF HasRoom(memory, self.frames)
                THEN /\ memory' = Append(memory, page)
                     /\ bits' = SetKey(aged, page, MSB)
                     /\ self' = PageFault(self)
                     /\ dirty' = SetKey(dirty, page, is_write)
                     /\ admitted' = SetKey(admitted, page, i)
                     /\ faulted' = Append(faulted, page)
                     /\ i' = i + 1 /\ pc' = pc
                ELSE IF memory = <<>>
                THEN \* min() of an empty list: ValueError leaves run()
                     /\ self' = PageFault(self)
                     /\ bits' = aged
                     /\ pc' = "raised"
                     /\ UNCHANGED <<i, memory, dirty, admitted, faulted>>
                ELSE LET victim == MinByBits(memory, aged)
                     IN  /\ self' = WriteBack(PageFault(self), dirty, victim)
                         /\ memory' = Append(RemoveFirst(memory, victim), page)
                         /\ bits' = SetKey(DelKey(aged, victim), page, MSB)
                         /\ dirty' = SetKey(DelKey(dirty, victim), page, is_write)
                         /\ admitted' = SetKey(admitted, page, i)
                         /\ faulted' = Append(faulted, page)
                         /\ i' = i + 1 /\ pc' = pc
           ELSE /\ bits' = SetKey(aged, page, OrMSB(aged[page]))
                /\ dirty' = HitDirty(dirty, page, is_write)
                /\ i' = i + 1 /\ pc' = pc
                /\ UNCHANGED <<memory, self, admitted, faulted>>
    /\ UNCHANGED <<num_frames, ref_string, k, queue, future_positions,
                   T1, T2, B1, B2, results, replace_calls>>

(* --------------------------------- ARC -------------------------------- *)
Max(a, b) == IF a >= b THEN a ELSE b
Min(a, b) == IF a <= b THEN a ELSE b

\* "self.p = min(self.p + max(1, len(B2) // max(1, len(B1))), self.frames)"
AdaptUp_noclamp(p, b1, b2, frames) == p + Max(1, b2 \div Max(1, b1))
AdaptUp(p, b1, b2, frames) == Min(p + Max(1, b2 \div Max(1, b1)), frames)
\* "self.p = max(self.p - max(1, len(B1) // max(1, len(B2))), 0)"
AdaptDown_unit(p, b1, b2) == Max(p - 1, 0)
AdaptDown(p, b1, b2) == Max(p - Max(1, b1 \div Max(1, b2)), 0)

\* the state ARC.run works on, as one value
ARCState ==
    [T1 |-> T1, T2 |-> T2, B1 |-> B1, B2 |-> B2, dirty |-> dirty,
     self |-> self, admitted |-> admitted, faulted |-> faulted,
     calls |-> <<>>, raised |-> FALSE]

\* the nested function replace(page)
replace(s, page) ==
    IF s.T1 # <<>> /\ (\/ Len(s.T1) > s.self.p
                       \/ (Contains(s.B2, page) /\ Len(s.T1) = s.self.p))
    THEN LET victim == Head(s.T1)
         IN  [s EXCEPT !.T1 = Tail(@),
                       !.B1 = Append(@, victim),
                       !.self = WriteBack(@, s.dirty, victim),
                       !.dirty = DelKey(@, victim)]
    ELSE IF s.T2 # <<>>
    THEN LET victim == Head(s.T2)
         IN  [s EXCEPT !.T2 = Tail(@),
                       !.B2 = Append(@, victim),
                       !.self = WriteBack(@, s.dirty, victim),
                       !.dirty = DelKey(@, victim)]
    ELSE s

\* a call "replace(page)", recorded with the lists before and after it
Lists(s) ==
    [T1 |-> s.T1, T2 |-> s.T2, B1 |-> s.B1, B2 |-> s.B2, p |-> s.self.p,
     writes |-> s.self.writes]
call_replace(s, page) ==
    LET out == replace(s, page)
    IN  [out EXCEPT !.calls = Append(@, [page |-> page,
                                         before |-> Lists(s),
                                         after |-> Lists(out)])]

\* Case 1: hit in T1 or T2
ARCHit_flush(s, page, is_write) ==
    LET moved == IF Contains(s.T1, page)
                 THEN [s EXCEPT !.T1 = RemoveFirst(@, page), !.T2 = Append(@, page)]
                 ELSE [s EXCEPT !.T2 = Append(RemoveFirst(@, page), page)]
    IN  [moved EXCEPT !.self = WriteBack(@, s.dirty, page),
                      !.dirty = HitDirty(@, page, is_write)]
ARCHit(s, page, is_write) ==
    LET moved == IF Contains(s.T1, page)
                 THEN [s EXCEPT !.T1 = RemoveFirst(@, page), !.T2 = Append(@, page)]
                 ELSE [s EXCEPT !.T2 = Append(RemoveFirst(@, page), page)]
    IN  [moved EXCEPT !.dirty = HitDirty(@, page, is_write)]

\* Case 2: ghost hit in B1
ARCGhostB1_keepghost(s, idx, page, is_write) ==
    LET adapted == [s EXCEPT !.self.p =
                       AdaptUp(@, Len(s.B1), Len(s.B2), s.self.frames)]
        r == call_replace(adapted, page)
    IN  [r EXCEPT !.T2 = Append(@, page),
                  !.dirty = HitDirty(@, page, is_write),
                  !.self = PageFault(@),
                  !.admitted = SetKey(@, page, idx),
                  !.faulted = Append(@, page)]
ARCGhostB1(s, idx, page, is_write) ==
    LET adapted == [s EXCEPT !.self.p =
                       AdaptUp(@, Len(s.B1), Len(s.B2), s.self.frames)]
        r == call_replace(adapted, page)
    IN  [r EXCEPT !.B1 = RemoveFirst(@, page),
                  !.T2 = Append(@, page),
                  !.dirty = HitDirty(@, page, is_write),
                  !.self = PageFault(@),
                  !.admitted = SetKey(@, page, idx),
                  !.faulted = Append(@, page)]

\* Case 3: ghost hit in B2
ARCGhostB2(s, idx, page, is_write) ==
    LET adapted == [s EXCEPT !.self.p = AdaptDown(@, Len(s.B1), Len(s.B2))]
        r == call_replace(adapted, page)
    IN  [r EXCEPT !.B2 = RemoveFirst(@, page),
                  !.T2 = Append(@, page),
                  !.dirty = HitDirty(@, page, is_write),
                  !.self = PageFault(@),
                  !.admitted = SetKey(@, page, idx),
                  !.faulted = Append(@, page)]

\* Case 4: the page is in none of the four lists
ARCMiss(s, idx, page, is_write) ==
    LET f == [s EXCEPT !.self = PageFault(@)]
        frames == s.self.frames
        room ==
            IF Len(f.T1) + Len(f.B1) = frames
            THEN IF Len(f.T1) < frames
                 THEN LET d == [f EXCEPT !.B1 = Tail(@)]
                      IN  IF Len(d.T1) + Len(d.T2) >= frames
                          THEN call_replace(d, page) ELSE d
                 ELSE IF f.T1 = <<>>
                 THEN \* pop from an empty list: IndexError leaves run()
                      [f EXCEPT !.raised = TRUE]
                 ELSE LET removed == Head(f.T1)
                      IN  [f EXCEPT !.T1 = Tail(@),
                                    !.self = WriteBack(@, f.dirty, removed),
                                    !.dirty = DelKey(@, removed),
                                    !.B1 = Append(@, removed)]
            ELSE LET total_size == Len(f.T1) + Len(f.T2) + Len(f.B1) + Len(f.B2)
                     d == IF total_size >= 2 * frames /\ f.B2 # <<>>
                          THEN [f EXCEPT !.B2 = Tail(@)] ELSE f
                 IN  IF Len(d.T1) + Len(d.T2) >= frames
                     THEN call_replace(d, page) ELSE d
    IN  IF room.raised THEN room
        ELSE [room EXCEPT !.T1 = Append(@, page),
                          !.dirty = HitDirty(@, page, is_write),
                          !.admitted = SetKey(@, page, idx),
                          !.faulted = Append(@, page)]

ARCAccess(s, idx, page, is_write) ==
    IF Contains(s.T1, page) \/ Contains(s.T2, page) THEN ARCHit(s, page, is_write)
    ELSE IF Contains(s.B1, page) THEN ARCGhostB1(s, idx, page, is_write)
    ELSE IF Contains(s.B2, page) THEN ARCGhostB2(s, idx, page, is_write)
    ELSE ARCMiss(s, idx, page, is_write)

ARCStep ==
    /\ Running("ARC")
    /\ LET s == ARCAccess(ARCState, i, ref_string[i + 1].page,
                          ref_string[i + 1].is_write)
       IN  /\ T1' = s.T1 /\ T2' = s.T2 /\ B1' = s.B1 /\ B2' = s.B2
           /\ dirty' = s.dirty /\ self' = s.self /\ admitted' = s.admitted
           /\ faulted' = s.faulted /\ replace_calls' = s.calls
           /\ i' = IF s.raised THEN i ELSE i + 1
           /\ pc' = IF s.raised THEN "raised" ELSE pc
    /\ UNCHANGED <<num_frames, ref_string, k, memory, queue,
                   future_positions, bits, results>>

(* ------------------------------ simulator ----------------------------- *)
\* "algo = algo_class(num_frames)" and the first lines of run(): reset and
\* the empty local collections (Optimal also builds future_positions)
StartRun ==
    /\ pc = "new" /\ k <= Len(AlgoOrder)
    /\ pc' = "run"
    /\ i' = 0
    /\ self' = NewInstance(num_frames)
    /\ memory' = <<>> /\ queue' = <<>>
    /\ dirty' = EmptyMap /\ bits' = EmptyMap /\ admitted' = EmptyMap
    /\ T1' = <<>> /\ T2' = <<>> /\ B1' = <<>> /\ B2' = <<>>
    /\ faulted' = <<>> /\ replace_calls' = <<>>
    /\ future_positions' = IF algo = "Optimal"
                           THEN BuildFuturePositions(ref_string) ELSE EmptyMap
    /\ UNCHANGED <<num_frames, ref_string, k, results>>

\* "faults, interrupts, writes = algo.run(ref_string)" and the three appends
Return ==
    /\ pc = "run" /\ i = Len(ref_string)
    /\ results' = [a \in DOMAIN results \cup {algo} |->
                      IF a = algo
                      THEN [faults |-> self.faults,
                            interrupts |-> self.interrupts,
                            writes |-> self.writes]
                      ELSE results[a]]
    /\ k' = k + 1
    /\ pc' = "new"
    /\ UNCHANGED <<num_frames, ref_string, i, self, memory, queue, dirty,
                   future_positions, bits, T1, T2, B1, B2, admitted,
                   faulted, replace_calls>>

Init ==
    /\ num_frames \in 1..MaxFrames
    /\ ref_string \in ShortRefs \cup LongRefs
    /\ k = 1
    /\ pc = "new"
    /\ i = 0
    /\ self = NewInstance(num_frames)
    /\ memory = <<>> /\ queue = <<>>
    /\ dirty = EmptyMap /\ bits = EmptyMap /\ admitted = EmptyMap
    /\ future_positions = EmptyMap
    /\ T1 = <<>> /\ T2 = <<>> /\ B1 = <<>> /\ B2 = <<>>
    /\ results = EmptyMap
    /\ faulted = <<>> /\ replace_calls = <<>>

Next ==
    \/ StartRun
    \/ FIFOStep
    \/ OptimalStep
    \/ ReferenceBitsStep
    \/ ARCStep
    \/ Return

Spec == Init /\ [][Next]_vars

(* ------------------- a second run() on the same instance -------------- *)
\* reset(): the three counters go back to 0, frames (and p) stay
Reset_keepwrites(obj) == [obj EXCEPT !.faults = 0, !.interrupts = 0]
Reset(obj) == [obj EXCEPT !.faults = 0, !.interrupts = 0, !.writes = 0]

\* run() has returned and is called once more on the same instance with the
\* same reference string: the first triple is kept, then reset() and the
\* fresh local collections of run() (ARC.run also sets self.p = 0)
RunAgain ==
    /\ pc = "run" /\ i = Len(ref_string)
    /\ algo \notin DOMAIN results
    /\ results' = [a \in DOMAIN results \cup {algo} |->
                      IF a = algo
                      THEN [faults |-> self.faults,
                            interrupts |-> self.interrupts,
                            writes |-> self.writes]
                      ELSE results[a]]
    /\ i' = 0
    /\ self' = IF algo = "ARC" THEN [Reset(self) EXCEPT !.p = 0] ELSE Reset(self)
    /\ memory' = <<>> /\ queue' = <<>>
    /\ dirty' = EmptyMap /\ bits' = EmptyMap /\ admitted' = EmptyMap
    /\ T1' = <<>> /\ T2' = <<>> /\ B1' = <<>> /\ B2' = <<>>
    /\ faulted' = <<>> /\ replace_calls' = <<>>
    /\ future_positions' = IF algo = "Optimal"
                           THEN BuildFuturePositions(ref_string) ELSE EmptyMap
    /\ UNCHANGED <<num_frames, ref_string, k, pc>>

NextRerun ==
    \/ Next
    \/ RunAgain

SpecRerun == Init /\ [][NextRerun]_vars

(* --------------------- instances with capacity <= 0 ------------------- *)
\* __init__ stores any frame count; the run may start at any of the policies
InitInvalid ==
    /\ num_frames \in (0 - MaxDeficit)..0
    /\ ref_string \in ShortRefs
    /\ k \in 1..Len(AlgoOrder)
    /\ pc = "new"
    /\ i = 0
    /\ self = NewInstance(num_frames)
    /\ memory = <<>> /\ queue = <<>>
    /\ dirty = EmptyMap /\ bits = EmptyMap /\ admitted = EmptyMap
    /\ future_positions = EmptyMap
    /\ T1 = <<>> /\ T2 = <<>> /\ B1 = <<>> /\ B2 = <<>>
    /\ results = EmptyMap
    /\ faulted = <<>> /\ replace_calls = <<>>

SpecInvalid == InitInvalid /\ [][Next]_vars

(* ------------- reference strings that fill the ghost lists ------------ *)
\* with capacity 2, GrowPrefix leaves ARC with |B1| = 1 and |B2| = 2, and
\* ShrinkPrefix with |B1| = 2 and |B2| = 1; an arbitrary tail follows
GrowPrefix == <<1, 1, 2, 3, 2, 4, 5, 1, 5, 6>>
ShrinkPrefix == <<1, 2, 3, 4, 5, 1, 2>>
GhostRefs ==
    {[j \in 1..Len(pre) |-> [page |-> pre[j], is_write |-> w]] \o t :
        pre \in {GrowPrefix, ShrinkPrefix}, w \in BOOLEAN,
        t \in UNION {[1..n -> [page : 1..GhostPages, is_write : BOOLEAN]] :
                        n \in 1..GhostTail}}

InitGhost ==
    /\ num_frames \in 1..MaxFrames
    /\ ref_string \in GhostRefs
    /\ k = 1
    /\ pc = "new"
    /\ i = 0
    /\ self = NewInstance(num_frames)
    /\ memory = <<>> /\ queue = <<>>
    /\ dirty = EmptyMap /\ bits = EmptyMap /\ admitted = EmptyMap
    /\ future_positions = EmptyMap
    /\ T1 = <<>> /\ T2 = <<>> /\ B1 = <<>> /\ B2 = <<>>
    /\ results = EmptyMap
    /\ faulted = <<>> /\ replace_calls = <<>>

SpecGhost == InitGhost /\ [][Next]_vars

(* ====================================================================== *)
(* Properties                                                             *)
(* ====================================================================== *)
InRun(name) == pc = "run" /\ algo = name
ListPolicies == {"FIFO", "Optimal", "ReferenceBits"}
Resident == IF algo = "ARC" THEN Elems(T1) \cup Elems(T2) ELSE Elems(memory)
PagesOf(ref) == [j \in 1..Len(ref) |-> ref[j].page]
\* some access to pg, from the one that admitted it up to the last one
\* processed, was a write
WrittenSince(pg) ==
    \E j \in (admitted[pg] + 1)..i :
        ref_string[j].page = pg /\ ref_string[j].is_write
Finished(names) == names \subseteq DOMAIN results

\* C1: while ARC runs, after every access |T1| + |T2| <= capacity.
ARCResidentBound == InRun("ARC") => Len(T1) + Len(T2) <= self.frames

\* C2: while ARC runs, after every access |T1| + |T2| + |B1| + |B2| <= 2 * capacity.
ARCDirectoryBound ==
    InRun("ARC") => Len(T1) + Len(T2) + Len(B1) + Len(B2) <= 2 * self.frames

\* C3: while ARC runs, after every access 0 <= p <= capacity.
ARCAdaptationBound == InRun("ARC") => (0 <= self.p /\ self.p <= self.frames)
\* capacity 1, pages 1 2 1 3 2: the second B1 ghost hit finds p already at capacity
ARCAdaptationClamped ==
    /\ InRun("ARC") /\ self.frames = 1 /\ i = 5
    /\ PagesOf(ref_string) = <<1, 2, 1, 3, 2>>
    /\ self.p = 1

\* C4: in FIFO, Optimal and ReferenceBits the working set has no duplicate
\* page and at most capacity pages after every access.
MemoryBound ==
    (pc = "run" /\ algo \in ListPolicies) =>
        /\ Len(memory) <= self.frames
        /\ Cardinality(Elems(memory)) = Len(memory)
MemoryFullAfterEviction ==
    /\ InRun("ReferenceBits") /\ self.frames = 2
    /\ Len(memory) = 2 /\ self.faults > 2

\* C5: on the same reference string and capacity, Optimal reports at most as
\* many faults as FIFO and at most as many as ReferenceBits.
OptimalLowerBound ==
    Finished(ListPolicies) =>
        /\ results["Optimal"].faults <= results["FIFO"].faults
        /\ results["Optimal"].faults <= results["ReferenceBits"].faults
\* a reference string long enough for aging, on which ReferenceBits and FIFO
\* differ and Optimal does strictly better than ReferenceBits
OptimalBeatsAgedReferenceBits ==
    /\ Finished(ListPolicies)
    /\ Len(ref_string) > AgingPeriod
    /\ results["Optimal"].faults < results["ReferenceBits"].faults
    /\ results["ReferenceBits"].faults # results["FIFO"].faults

\* C6: on the same reference string and capacity, Optimal reports at most as
\* many faults as ARC.
OptimalLowerBoundARC ==
    Finished({"Optimal", "ARC"}) =>
        results["Optimal"].faults <= results["ARC"].faults

\* C7: in every policy, after every access interrupts = faults + writes and
\* writes <= faults; the returned counters satisfy the same.
CounterRelation ==
    /\ self.interrupts = self.faults + self.writes
    /\ self.writes <= self.faults
    /\ \A a \in DOMAIN results :
          /\ results[a].interrupts = results[a].faults + results[a].writes
          /\ results[a].writes <= results[a].faults
AllPoliciesWroteBack ==
    /\ Finished({"FIFO", "Optimal", "ReferenceBits", "ARC"})
    /\ \A a \in DOMAIN results : results[a].writes >= 1

\* C8: an access to a resident page leaves faults, interrupts and writes
\* unchanged; an access to a non-resident page adds exactly 1 to faults.
HitFaultAccounting ==
    [][(pc = "run" /\ i' = i + 1) =>
          IF ref_string[i + 1].page \in Resident
          THEN /\ self'.faults = self.faults
               /\ self'.interrupts = self.interrupts
               /\ self'.writes = self.writes
          ELSE self'.faults = self.faults + 1]_vars
ARCHitsAndFaults ==
    /\ InRun("ARC") /\ i = Len(ref_string)
    /\ 0 < self.faults /\ self.faults < i
    /\ B1 # <<>>

\* C9 as stated: a page has a dirty entry iff it is resident.
DirtyIffResident == pc = "run" => DOMAIN dirty = Resident
\* C9 amended: in FIFO, Optimal and ReferenceBits a page has a dirty entry
\* iff it is resident; in ARC only resident pages have an entry, and a
\* resident page has one exactly when it was written since its admission.
DirtyMembership ==
    pc = "run" =>
        IF algo = "ARC"
        THEN /\ DOMAIN dirty \subseteq Resident
             /\ \A pg \in Resident : pg \in DOMAIN dirty <=> WrittenSince(pg)
        ELSE DOMAIN dirty = Resident
\* ARC with a written page now in a ghost list, a resident page that was
\* only read and a resident page that was written
ARCCleanAndDirtyResident ==
    /\ InRun("ARC")
    /\ \E pg \in Elems(B1) \cup Elems(B2) :
          \E j \in 1..i : ref_string[j] = [page |-> pg, is_write |-> TRUE]
    /\ \E pg \in Resident : pg \notin DOMAIN dirty
    /\ \E pg \in Resident : pg \in DOMAIN dirty

\* C10: when a resident page is evicted, writes grows by 1 if some access to
\* the page since its admission was a write and by 0 otherwise; capacity 1
\* and (1,write),(2,read) gives writes = 1 in FIFO, ReferenceBits and ARC.
DirtyScenario ==
    (/\ num_frames = 1
     /\ ref_string = <<[page |-> 1, is_write |-> TRUE],
                       [page |-> 2, is_write |-> FALSE]>>)
    => \A a \in DOMAIN results \ {"Optimal"} : results[a].writes = 1
DirtyWriteBack ==
    /\ []DirtyScenario
    /\ [][(pc = "run" /\ i' = i + 1) =>
            \A pg \in Resident \ Resident' :
                self'.writes = self.writes + (IF WrittenSince(pg) THEN 1 ELSE 0)]_vars
ReadAfterWriteEvicted ==
    /\ pc = "run" /\ self.frames = 2 /\ i = 4
    /\ ref_string[1] = [page |-> 1, is_write |-> TRUE]
    /\ ref_string[2] = [page |-> 1, is_write |-> FALSE]
    /\ PagesOf(ref_string) = <<1, 1, 2, 3, 1>>
    /\ 1 \notin Resident
    /\ self.writes = 1

Read(pg) == [page |-> pg, is_write |-> FALSE]
Counters(obj) ==
    [faults |-> obj.faults, interrupts |-> obj.interrupts, writes |-> obj.writes]

\* C11 as stated: FIFO, capacity 2, reads of 1 2 3 1: faults = 3, writes = 0.
FIFOScenario ==
    /\ num_frames = 2
    /\ ref_string = <<Read(1), Read(2), Read(3), Read(1)>>
    /\ "FIFO" \in DOMAIN results
FIFOScenarioThreeFaults ==
    FIFOScenario =>
        (results["FIFO"].faults = 3 /\ results["FIFO"].writes = 0)
\* C11 amended: FIFO, capacity 2, reads of 1 2 3 1: faults = 4, writes = 0.
FIFOScenarioFourFaults ==
    FIFOScenario =>
        (results["FIFO"].faults = 4 /\ results["FIFO"].writes = 0)
\* the scenario right after FIFO.run returned, pages 3 and 1 resident
FIFOScenarioReturned ==
    FIFOScenario /\ k = 2 /\ pc = "new" /\ memory = <<3, 1>>

\* C12: an instance with capacity <= 0 is never inside run().
InvalidCapacityRejected == num_frames <= 0 => pc = "new"

\* C13: a second run() on the same instance with the same reference string
\* starts from the state of a fresh instance and ends with the counters the
\* first run returned.
RerunSameResult ==
    /\ (pc = "run" /\ i = 0) =>
          /\ self = NewInstance(num_frames)
          /\ memory = <<>> /\ queue = <<>> /\ dirty = EmptyMap /\ bits = EmptyMap
          /\ T1 = <<>> /\ T2 = <<>> /\ B1 = <<>> /\ B2 = <<>>
    /\ (pc = "run" /\ i = Len(ref_string) /\ algo \in DOMAIN results) =>
          Counters(self) = results[algo]
\* the second run of ARC has finished, with write-backs and p > 0
ARCSecondRunFinished ==
    /\ InRun("ARC") /\ i = Len(ref_string) /\ i > 0
    /\ "ARC" \in DOMAIN results
    /\ self.writes >= 1 /\ self.p >= 1

\* C14: when FIFO.run finishes, memory holds min(capacity, distinct pages of
\* the reference string) pages, and they are the pages of the last
\* min(capacity, faults) faults; capacity 2 and pages 1 2 3 leave 2 and 3.
FIFOFinalWorkingSet ==
    (InRun("FIFO") /\ i = Len(ref_string)) =>
        LET n == Min(self.frames, Cardinality(Elems(PagesOf(ref_string))))
            m == Min(self.frames, self.faults)
        IN  /\ Len(memory) = n
            /\ Cardinality(Elems(memory)) = n
            /\ Len(faulted) = self.faults
            /\ Elems(memory) =
                 {faulted[j] : j \in (Len(faulted) - m + 1)..Len(faulted)}
            /\ (self.frames = 2 /\ PagesOf(ref_string) = <<1, 2, 3>>)
                   => memory = <<2, 3>>
\* FIFO has finished a run with evictions and hits
FIFOFinishedAfterEvictions ==
    /\ InRun("FIFO") /\ i = Len(ref_string)
    /\ self.frames = 2 /\ self.faults > 3 /\ self.faults < i

\* C15: the FIFO queue holds exactly the resident pages in admission order,
\* and a fault with a full memory evicts the resident page admitted earliest,
\* whatever hits happened since.
FIFOEvictionOrder ==
    /\ [](InRun("FIFO") =>
            /\ Len(queue) = Len(memory)
            /\ Elems(queue) = Elems(memory)
            /\ \A a, b \in 1..Len(queue) :
                  a < b => admitted[queue[a]] < admitted[queue[b]])
    /\ [][(/\ InRun("FIFO") /\ i' = i + 1
           /\ ref_string[i + 1].page \notin Resident
           /\ Len(memory) = self.frames) =>
            \E v \in Resident :
                /\ Resident' = (Resident \ {v}) \cup {ref_string[i + 1].page}
                /\ \A q \in Resident : admitted[v] <= admitted[q]]_vars
\* capacity 2, pages 1 2 1 3: page 1 was hit and is evicted all the same
FIFOEvictsOldestDespiteHit ==
    /\ InRun("FIFO") /\ self.frames = 2 /\ i = 4
    /\ SubSeq(PagesOf(ref_string), 1, 4) = <<1, 2, 1, 3>>
    /\ memory = <<2, 3>>

\* the step services a fault of the named policy with a full memory
EvictingFault(name) ==
    /\ InRun(name) /\ i' = i + 1
    /\ ref_string[i + 1].page \notin Resident
    /\ Len(memory) = self.frames
\* position in ref_string of the next access to pg after the current one, 0
\* when there is none
NextUse(pg) ==
    LET later == {j \in (i + 2)..Len(ref_string) : ref_string[j].page = pg}
    IN  IF later = {} THEN 0
        ELSE CHOOSE j \in later : \A j2 \in later : j <= j2
IndexIn(seq, x) == CHOOSE n \in 1..Len(seq) : seq[n] = x

ByteNow(q) == IF i > 0 /\ i % AgingPeriod = 0 THEN bits[q] \div 2 ELSE bits[q]

\* C17: a ReferenceBits fault with a full memory evicts a resident page with
\* the least reference byte, the earliest such page in memory order.
ReferenceBitsVictimSelection ==
    [][EvictingFault("ReferenceBits") =>
          \E v \in Resident :
              /\ Resident' = (Resident \ {v}) \cup {ref_string[i + 1].page}
              /\ \A q \in Resident : ByteNow(v) <= ByteNow(q)
              /\ \A n \in 1..(IndexIn(memory, v) - 1) :
                    ByteNow(memory[n]) > ByteNow(v)]_vars
\* after the aging, page 1 was hit and page 2, later in memory, was evicted
ReferenceBitsEvictsAgedPage ==
    /\ InRun("ReferenceBits") /\ self.frames = 2 /\ i = AgingPeriod + 2
    /\ memory = <<1, 3>>
    /\ bits[1] = 192 /\ bits[3] = MSB

\* C18: a reference byte is 128 after admission, old OR 0x80 after a hit,
\* halved for every resident page exactly when access i > 0, i mod 100 = 0
\* is serviced, unchanged otherwise; it stays in 0..255 and has its top bit
\* set right after an access to its page.
ReferenceBitsByteEvolution ==
    /\ [](InRun("ReferenceBits") =>
            /\ DOMAIN bits = Resident
            /\ \A q \in Resident : bits[q] \in 0..255)
    /\ [][(InRun("ReferenceBits") /\ i' = i + 1) =>
            LET page == ref_string[i + 1].page
            IN  /\ bits'[page] =
                      IF page \in Resident
                      THEN (IF ByteNow(page) >= 128 THEN ByteNow(page)
                            ELSE ByteNow(page) + 128)
                      ELSE 128
                /\ bits'[page] >= 128
                /\ \A q \in Resident' \ {page} : bits'[q] = ByteNow(q)]_vars
\* after the aging: one page hit since (64 OR 128), one page not
ReferenceBitsAgedAndHit ==
    /\ InRun("ReferenceBits") /\ i > AgingPeriod
    /\ \E q, r \in Resident : bits[q] = 192 /\ bits[r] = 64

\* C19: every call of replace(page) moves the head of T1 to the tail of B1
\* when T1 is non-empty and (|T1| > p, or page is in B2 and |T1| = p), and
\* the head of T2 to the tail of B2 otherwise; it always evicts one page.
ReplaceAlwaysEvicts ==
    \A n \in 1..Len(replace_calls) :
        LET c == replace_calls[n]
            b == c.before
            a == c.after
        IN  /\ Len(a.T1) + Len(a.T2) = Len(b.T1) + Len(b.T2) - 1
            /\ IF b.T1 # <<>> /\ (\/ Len(b.T1) > b.p
                                  \/ (Contains(b.B2, c.page) /\ Len(b.T1) = b.p))
               THEN /\ a.T1 = Tail(b.T1) /\ a.B1 = Append(b.B1, Head(b.T1))
                    /\ a.T2 = b.T2 /\ a.B2 = b.B2
               ELSE /\ b.T2 # <<>>
                    /\ a.T2 = Tail(b.T2) /\ a.B2 = Append(b.B2, Head(b.T2))
                    /\ a.T1 = b.T1 /\ a.B1 = b.B1

\* what the calls of replace() in the last access added to writes
ReplaceWrites(calls) ==
    IF calls = <<>> THEN 0 ELSE calls[1].after.writes - calls[1].before.writes
\* the access is a total miss that finds T1 full: ARC.run evicts the head of
\* T1 itself
DirectEviction ==
    LET page == ref_string[i + 1].page
    IN  /\ ~Contains(T1, page) /\ ~Contains(T2, page)
        /\ ~Contains(B1, page) /\ ~Contains(B2, page)
        /\ Len(T1) + Len(B1) = self.frames
        /\ ~(Len(T1) < self.frames)

\* C20 as stated: in ARC writes changes only inside replace().
ARCWritesOnlyInReplace ==
    [][(InRun("ARC") /\ i' = i + 1) =>
          /\ Len(replace_calls') <= 1
          /\ self'.writes = self.writes + ReplaceWrites(replace_calls')]_vars
\* C20 amended: in ARC writes changes only inside replace() or when a total
\* miss that finds T1 full evicts the head of T1 directly.
ARCWritesOnlyOnEviction ==
    [][(InRun("ARC") /\ i' = i + 1) =>
          /\ Len(replace_calls') <= 1
          /\ IF DirectEviction
             THEN /\ replace_calls' = <<>>
                  /\ self'.writes =
                        self.writes + (IF IsDirty(dirty, Head(T1)) THEN 1 ELSE 0)
             ELSE self'.writes = self.writes + ReplaceWrites(replace_calls')]_vars
\* capacity 1, writes of 1 2 3: page 1 was flushed by the direct eviction,
\* page 2 by replace()
ARCBothWriteBacks ==
    /\ InRun("ARC") /\ self.frames = 1 /\ i = 3
    /\ replace_calls # <<>> /\ ReplaceWrites(replace_calls) = 1
    /\ self.writes = 2

\* C21: ARC changes p only on ghost hits: a B1 ghost hit sets it to
\* min(capacity, p + max(1, |B2| div max(1, |B1|))), a B2 ghost hit to
\* max(0, p - max(1, |B1| div max(1, |B2|))), sizes taken before the access;
\* after a ghost hit the page is the tail of T2 and in no ghost list, and
\* faults and interrupts were incremented for the fault.
ARCGhostAdaptation ==
    [][(InRun("ARC") /\ i' = i + 1) =>
          LET page == ref_string[i + 1].page
              inB1 == page \notin Resident /\ Contains(B1, page)
              inB2 == page \notin Resident /\ ~Contains(B1, page)
                                           /\ Contains(B2, page)
              up   == IF Len(B1) = 0 THEN Len(B2) ELSE Len(B2) \div Len(B1)
              down == IF Len(B2) = 0 THEN Len(B1) ELSE Len(B1) \div Len(B2)
              grown  == self.p + (IF up > 1 THEN up ELSE 1)
              shrunk == self.p - (IF down > 1 THEN down ELSE 1)
          IN  /\ inB1 => self'.p = IF grown > self.frames THEN self.frames
                                   ELSE grown
              /\ inB2 => self'.p = IF shrunk < 0 THEN 0 ELSE shrunk
              /\ ~(inB1 \/ inB2) => self'.p = self.p
              /\ (inB1 \/ inB2) =>
                    /\ T2' # <<>> /\ T2'[Len(T2')] = page
                    /\ ~Contains(B1', page) /\ ~Contains(B2', page)
                    /\ self'.faults = self.faults + 1
                    /\ self'.interrupts =
                          self.interrupts + 1 + (self'.writes - self.writes)]_vars
\* capacity 2: the B1 ghost hit on page 4 found |B1| = 1, |B2| = 2 and
\* raised p from 0 to 2
ARCGhostHitRaisedByTwo ==
    /\ InRun("ARC") /\ self.frames = 2 /\ i = Len(GrowPrefix) + 1
    /\ PagesOf(SubSeq(ref_string, 1, i)) = GrowPrefix \o <<4>>
    /\ self.p = 2
    /\ T2 = <<4>> /\ B1 = <<>> /\ B2 = <<2, 1, 5>>

\* the next access of the running ARC is to a page in none of the four lists
TotalMissNext ==
    /\ InRun("ARC") /\ i < Len(ref_string)
    /\ LET page == ref_string[i + 1].page
       IN  /\ ~Contains(T1, page) /\ ~Contains(T2, page)
           /\ ~Contains(B1, page) /\ ~Contains(B2, page)

\* C22: when ARC is about to service a total miss, |T1| + |B1| <= capacity,
\* and if |T1| + |B1| = capacity with T1 not below capacity then T1 holds
\* exactly capacity pages and B1 is empty.
ARCRecencyBoundAtMiss ==
    TotalMissNext =>
        /\ Len(T1) + Len(B1) <= self.frames
        /\ (Len(T1) + Len(B1) = self.frames /\ ~(Len(T1) < self.frames)) =>
              (Len(T1) = self.frames /\ B1 = <<>>)

\* C23: while ARC runs, after every access no page occurs twice in
\* T1, T2, B1, B2 taken together, and the page just accessed is in T1 or T2
\* and in no ghost list.
ARCListsDisjoint ==
    InRun("ARC") =>
        LET all == T1 \o T2 \o B1 \o B2
        IN  /\ \A m, n \in 1..Len(all) : all[m] = all[n] => m = n
            /\ i > 0 =>
                  /\ ref_string[i].page \in Elems(T1) \cup Elems(T2)
                  /\ ~Contains(B1, ref_string[i].page)
                  /\ ~Contains(B2, ref_string[i].page)
\* all four lists hold pages, the last access was a total miss
ARCFourListsInUse ==
    /\ InRun("ARC") /\ i > 0
    /\ T1 # <<>> /\ T2 # <<>> /\ B1 # <<>> /\ B2 # <<>>
    /\ T1[Len(T1)] = ref_string[i].page
====
